---- MODULE Spec2Model ----
(***************************************************************************)
(* Model of the calgen schedule converter: the per-section loop of         *)
(* calgen.py (parse the meeting time, walk the dates with                  *)
(* iter_meeting_dates, compact, build the events with recurring_event)     *)
(* and the final write_ics.                                                *)
(*                                                                         *)
(* Dates are day numbers; day 0 is a Monday, so date.weekday() is d % 7.   *)
(* Strings that the code parses (the meeting time) are sequences of        *)
(* one-character strings.  Python's None is the record None.               *)
(***************************************************************************)
EXTENDS Integers, Sequences, FiniteSets, TLC

(* ------------------------------ bounds -------------------------------- *)

\* last day number a section may end on (days 0..MaxDay)
MaxDay == 7
\* latest start day of a section (end may be earlier: the empty walk)
MaxStart == 1
\* rows of the special-dates table
MaxSpecials == 2
\* sections (academic events) of one run
MaxSections == 2
\* letters of 'MTWRFSU' that patterns are drawn from, and pattern length
NumLetters == 2
MaxPatLen == 2
\* rows of the special-dates table are dated 1..MaxSpecialDay
MaxSpecialDay == 2

(* --------------------------- program values --------------------------- *)

\* SpecialDate.pattern for 'END_OF_SEMESTER' and for '' (no class): values
\* that are no weekday index, so that `effective_date in days` is false.
END_OF_SEMESTER == -1
NO_CLASS == -2

None == [is_none |-> TRUE]

WeekLetters == <<"M", "T", "W", "R", "F", "S", "U">>

letter_to_day(d) == (CHOOSE k \in 1..7 : WeekLetters[k] = d) - 1

\* variant: Sunday is 0
weekdaySundayFirst(d) == (d + 1) % 7

\* datetime.date.weekday(): Monday is 0
weekday(d) == d % 7

\* SpecialDate.__init__: a one-letter pattern becomes a weekday index
SpecialDate(row) ==
    [date |-> row.date,
     pattern |-> IF row.pattern \in {WeekLetters[k] : k \in 1..7}
                   THEN letter_to_day(row.pattern)
                   ELSE IF row.pattern = "END_OF_SEMESTER" THEN END_OF_SEMESTER
                   ELSE NO_CLASS]

\* duplicated_dates: the dates that more than one row of the table names
duplicated_dates(specials) ==
    {specials[k].date : k \in {k \in 1..Len(specials) :
        \E j \in 1..Len(specials) : j # k /\ specials[j].date = specials[k].date}}

\* Python's `x in list`
InList(x, list) == \E k \in 1..Len(list) : list[k] = x

\* days = [letter_to_day(d) for d in pattern]
PatternDays(pattern) == [k \in 1..Len(pattern) |-> letter_to_day(pattern[k])]

(* ------------------------- iter_meeting_dates ------------------------- *)

\* for special in special_dates: if cur == special.date: effective_date =
\* special.pattern  -- the loop has no break: the value after the whole scan
\* variant: the scan stops at the first row that names the day
RECURSIVE ScanSpecialsFirstMatch(_, _, _, _)
ScanSpecialsFirstMatch(specials, k, day, effective) ==
    IF k > Len(specials) THEN effective
    ELSE IF day = specials[k].date THEN specials[k].pattern
    ELSE ScanSpecialsFirstMatch(specials, k + 1, day, effective)

RECURSIVE ScanSpecials(_, _, _, _)
ScanSpecials(specials, k, day, effective) ==
    IF k > Len(specials) THEN effective
    ELSE ScanSpecials(specials, k + 1, day,
                      IF day = specials[k].date THEN specials[k].pattern
                      ELSE effective)

EffectiveDate(specials, day) == ScanSpecials(specials, 1, day, weekday(day))

NormallyMeets(day, days) == InList(weekday(day), days)

\* variant: the sticky flag is not consulted
MeetsTodayIgnoringFlag(effective, days, ended) == InList(effective, days)

MeetsToday(effective, days, ended) == InList(effective, days) /\ ~ended

\* variant: every day without a meeting is an exception
IsExceptionWheneverNoMeeting(normally_meets_today, meets_today) == ~meets_today

IsException(normally_meets_today, meets_today) ==
    normally_meets_today /\ ~meets_today

IsAbnormalMeeting(normally_meets_today, meets_today) ==
    ~normally_meets_today /\ meets_today

\* the tuple yielded for one day
Classify(specials, day, days, ended) ==
    LET effective == EffectiveDate(specials, day)
        normally == NormallyMeets(day, days)
        meets == MeetsToday(effective, days, ended)
    IN  [date |-> day,
         meets_today |-> meets,
         is_exception |-> IsException(normally, meets),
         is_abnormal_meeting |-> IsAbnormalMeeting(normally, meets)]

\* variant: every non-weekday value ends the semester
EndsSemesterOnAnySentinel(effective) == effective < 0

\* if effective_date == 'END_OF_SEMESTER': semester_ended = True
EndsSemester(effective) == effective = END_OF_SEMESTER

\* variant: the walk stops before end_date
WalkContinuesExclusive(day, end_date) == day < end_date

\* while cur <= end_date
WalkContinues(day, end_date) == day <= end_date

(* ----------------------------- parse_time ----------------------------- *)

Digits == <<"0", "1", "2", "3", "4", "5", "6", "7", "8", "9">>

IsDigit(c) == \E k \in 1..10 : Digits[k] = c

DigitValue(c) == (CHOOSE k \in 1..10 : Digits[k] = c) - 1

\* \d+ is greedy: the length of the longest run of digits of x from position k
RECURSIVE DigitRun(_, _)
DigitRun(x, k) ==
    IF k <= Len(x) /\ IsDigit(x[k]) THEN 1 + DigitRun(x, k + 1) ELSE 0

\* int() of a string of decimal digits
RECURSIVE IntOf(_)
IntOf(ds) ==
    IF ds = <<>> THEN 0
    ELSE 10 * IntOf(SubSeq(ds, 1, Len(ds) - 1)) + DigitValue(ds[Len(ds)])

\* re.match(r'^(\d+):(\d+) (AM|PM)', x): the groups, or None.  The pattern
\* has no '$': anything may follow the meridian.
ReMatchTime(x) ==
    LET h == DigitRun(x, 1)
        m == DigitRun(x, h + 2)
        e == h + m + 2
    IN  IF /\ h >= 1
           /\ Len(x) >= h + 1 /\ x[h + 1] = ":"
           /\ m >= 1
           /\ Len(x) >= e + 2
           /\ x[e] = " "
           /\ x[e + 1] \in {"A", "P"}
           /\ x[e + 2] = "M"
        THEN [hour |-> SubSeq(x, 1, h),
              min |-> SubSeq(x, h + 2, h + m + 1),
              meridian |-> SubSeq(x, e + 1, e + 2)]
        ELSE None

\* re.match(...) is None, so .groups() raises AttributeError
ParseTimeRaises(x) == ReMatchTime(x) = None

\* variant: without `if hour == 12: hour = 0`
parse_timeKeepsTwelve(x) ==
    LET g == ReMatchTime(x)
        hour == IntOf(g.hour)
    IN  [hour |-> IF g.meridian = <<"P", "M">> THEN hour + 12 ELSE hour,
         minute |-> IntOf(g.min)]

parse_time(x) ==
    LET g == ReMatchTime(x)
        hour == IntOf(g.hour)
        hour0 == IF hour = 12 THEN 0 ELSE hour
    IN  [hour |-> IF g.meridian = <<"P", "M">> THEN hour0 + 12 ELSE hour0,
         minute |-> IntOf(g.min)]

\* the first position of ' - ' in s at or after k, or 0
RECURSIVE FindSep(_, _)
FindSep(s, k) ==
    IF k + 2 > Len(s) THEN 0
    ELSE IF SubSeq(s, k, k + 2) = <<" ", "-", " ">> THEN k
    ELSE FindSep(s, k + 1)

\* str.split(' - ')
RECURSIVE Split(_)
Split(s) ==
    LET p == FindSep(s, 1)
    IN  IF p = 0 THEN <<s>>
        ELSE <<SubSeq(s, 1, p - 1)>> \o Split(SubSeq(s, p + 3, Len(s)))

(* ----------------------------- ical_writer ---------------------------- *)

Some(v) == [value |-> v]

\* variant: the codes of Tuesday and Thursday exchanged
date_to_rruleTuesdayThursday(d) ==
    CASE d = "U" -> "SU"
      [] d = "M" -> "MO"
      [] d = "T" -> "TH"
      [] d = "W" -> "WE"
      [] d = "R" -> "TU"
      [] d = "F" -> "FR"
      [] d = "S" -> "SA"

\* date_to_rrule
date_to_rrule(d) ==
    CASE d = "U" -> "SU"
      [] d = "M" -> "MO"
      [] d = "T" -> "TU"
      [] d = "W" -> "WE"
      [] d = "R" -> "TH"
      [] d = "F" -> "FR"
      [] d = "S" -> "SA"

\* ics_datetime: the date and the time of one timestamp (yyyymmddThhmm00)
ics_datetime(date, time) ==
    [date |-> date, hour |-> time.hour, minute |-> time.minute]

\* assert len(exceptions) == 0, reached only when meeting_pattern is None
AssertionFails(meeting_pattern, exceptions) ==
    meeting_pattern = None /\ Len(exceptions) # 0

\* recurring_event: the VEVENT it returns.  rrule and exceptions_str are the
\* lines of those two strings ('' is no line); the arguments that decide
\* them are kept beside the text.
recurring_event(first_date, last_date, start_time_p, end_time_p, meeting_pattern, exceptions) ==
    [first_date |-> first_date,
     last_date |-> last_date,
     meeting_pattern |-> meeting_pattern,
     exceptions |-> exceptions,
     dtstart |-> ics_datetime(first_date, start_time_p),
     dtend |-> ics_datetime(first_date, end_time_p),
     rrule |->
        IF meeting_pattern # None
        THEN <<[byday |-> [k \in 1..Len(meeting_pattern.value) |->
                              date_to_rrule(meeting_pattern.value[k])],
                until |-> ics_datetime(last_date.value,
                                       [hour |-> 23, minute |-> 59])]>>
        ELSE <<>>,
     exceptions_str |->
        IF meeting_pattern # None
        THEN [k \in 1..Len(exceptions) |->
                 ics_datetime(exceptions[k], start_time_p)]
        ELSE <<>>]

\* all_day_event
all_day_event(date) == [dtstart_date |-> date]

\* write_ics: header, the events in order, footer
write_ics(events) == [written |-> TRUE, events |-> events]

(* ------------------------- the per-section loop ----------------------- *)

\* actual_occurrences = [occur for occur in occurrences if occur[1]]
actual_occurrences(occ) ==
    LET Meets(o) == o.meets_today IN SelectSeq(occ, Meets)

\* actual_occurrences[0][0] raises IndexError on an empty list
NoMeetings(occ) == actual_occurrences(occ) = <<>>

FirstMeetingDate(occ) == actual_occurrences(occ)[1].date

LastMeetingDate(occ) ==
    actual_occurrences(occ)[Len(actual_occurrences(occ))].date

\* variant: no bound on the date
KeepsExceptionUnbounded(o, last) == o.is_exception

\* if is_exception and meeting_date <= last_meeting_date
KeepsException(o, last) == o.is_exception /\ o.date <= last

\* variant: exceptions before the first meeting are dropped as well
ExceptionsDatesFromFirstMeeting(occ, last) ==
    LET Keep(o) == KeepsException(o, last) /\ FirstMeetingDate(occ) <= o.date
        kept == SelectSeq(occ, Keep)
    IN  [k \in 1..Len(kept) |-> kept[k].date]

ExceptionsDates(occ, last) ==
    LET Keep(o) == KeepsException(o, last)
        kept == SelectSeq(occ, Keep)
    IN  [k \in 1..Len(kept) |-> kept[k].date]

\* variant: the second loop makes an event of every meeting
abnormal_meetingsEveryMeeting(occ) == actual_occurrences(occ)

\* the occurrences the second loop does not `continue` over
abnormal_meetings(occ) ==
    LET Abnormal(o) == o.is_abnormal_meeting IN SelectSeq(occ, Abnormal)

\* arguments of one recurring_event call
Call(first_date, last_date, start_p, end_p, meeting_pattern, exceptions) ==
    [first_date |-> first_date, last_date |-> last_date,
     start_time_p |-> start_p, end_time_p |-> end_p,
     meeting_pattern |-> meeting_pattern, exceptions |-> exceptions]

\* the call for the weekly rule of the section
MainCall(event, first, last, excluded, start_p, end_p) ==
    Call(first, Some(last), start_p, end_p, Some(event.pattern), excluded)

\* variant: the section's exclusions are passed on
AbnormalCallWithExclusions(o, excluded, start_p, end_p) ==
    Call(o.date, None, start_p, end_p, None, excluded)

\* the call for one abnormal meeting: exceptions_dates (excluded) is in scope,
\* the call passes exceptions=[]
AbnormalCall(o, excluded, start_p, end_p) ==
    Call(o.date, None, start_p, end_p, None, <<>>)

\* the calls of one section, in the order the loop body makes them
SectionCalls(event, occ, first, last, excluded, start_p, end_p) ==
    LET abn == abnormal_meetings(occ)
    IN  <<MainCall(event, first, last, excluded, start_p, end_p)>> \o
        [k \in 1..Len(abn) |-> AbnormalCall(abn[k], excluded, start_p, end_p)]

EventOf(c) ==
    recurring_event(c.first_date, c.last_date, c.start_time_p, c.end_time_p,
                    c.meeting_pattern, c.exceptions)

\* the calls made before the first one whose assertion fails (all of them
\* when none fails)
CallsDone(calls) ==
    LET bad == {k \in 1..Len(calls) :
                  AssertionFails(calls[k].meeting_pattern, calls[k].exceptions)}
    IN  IF bad = {} THEN calls
        ELSE SubSeq(calls, 1, (CHOOSE k \in bad : \A j \in bad : k <= j) - 1)

\* relevant_special_dates, as all-day events, in table order
relevant_special_dates(specials, events) ==
    LET earliest == CHOOSE d \in {events[k].start_date : k \in 1..Len(events)} :
                       \A k \in 1..Len(events) : d <= events[k].start_date
        latest == CHOOSE d \in {events[k].end_date : k \in 1..Len(events)} :
                       \A k \in 1..Len(events) : d >= events[k].end_date
        Relevant(sp) == earliest <= sp.date /\ sp.date <= latest
    IN  SelectSeq(specials, Relevant)

(* ------------------------------- inputs ------------------------------- *)

\* rows of special_dates.csv: [date, pattern]
RawPatterns == {"M", "END_OF_SEMESTER", ""}

RawRows == [date : 1..MaxSpecialDay, pattern : RawPatterns]

RawTables == UNION {[1..n -> RawRows] : n \in 0..MaxSpecials}

\* meeting patterns: duplicate-free strings over the first letters of MTWRFSU
Letters == {WeekLetters[k] : k \in 1..NumLetters}

Patterns ==
    {p \in UNION {[1..n -> Letters] : n \in 1..MaxPatLen} :
        \A a, b \in 1..Len(p) : a # b => p[a] # p[b]}

\* the value of the meeting_time column: NaN when the row had none
NaN == [is_str |-> FALSE, chars |-> <<>>]

Str(chars) == [is_str |-> TRUE, chars |-> chars]

\* "9:55 AM - 10:45 AM"
TimeOk ==
    Str(<<"9", ":", "5", "5", " ", "A", "M", " ", "-", " ",
          "1", "0", ":", "4", "5", " ", "A", "M">>)

\* "12:15 PM - 1:05 PM"
TimeNoon ==
    Str(<<"1", "2", ":", "1", "5", " ", "P", "M", " ", "-", " ",
          "1", ":", "0", "5", " ", "P", "M">>)

\* "TBA"
TimeTBA == Str(<<"T", "B", "A">>)

\* "9:55 AM - noon"
TimeBadHalf ==
    Str(<<"9", ":", "5", "5", " ", "A", "M", " ", "-", " ", "n", "o", "o", "n">>)

\* "9 AM - 10 AM - 11 AM"
TimeThreeParts ==
    Str(<<"9", " ", "A", "M", " ", "-", " ", "1", "0", " ", "A", "M",
          " ", "-", " ", "1", "1", " ", "A", "M">>)

\* sections with a well-formed time over every pattern and range, and one
\* section for each other shape of the time field
AcademicEvents ==
    [pattern : Patterns, meeting_time : {TimeOk},
     start_date : 0..MaxStart, end_date : {0, MaxDay}]
    \cup
    [pattern : {<<"M">>},
     meeting_time : {NaN, TimeNoon, TimeTBA, TimeBadHalf, TimeThreeParts},
     start_date : {0}, end_date : {MaxDay}]

(* -------------------------------- state ------------------------------- *)

VARIABLES
    special_dates,      \* the table, after SpecialDate(...)
    academic_events,    \* the sections, in row order
    i,                  \* index of the section the loop is at (from 1)
    pc,                 \* "loop", "walk", "build", "done" or "crashed"
    start_time_p,       \* parse_time of the two halves of the time field
    end_time_p,
    cur,                \* iter_meeting_dates: the date the walk is at
    semester_ended,     \* iter_meeting_dates: the sticky flag
    occurrences,        \* the tuples yielded so far
    first_meeting_date, \* locals of the loop body, set after the walk
    last_meeting_date,
    exceptions_dates,
    recurring_events,   \* the events built so far
    warnings,           \* the st.warning calls, in order
    error,              \* the uncaught exception, "" when none
    ics_string          \* the result of write_ics, None before

vars == <<special_dates, academic_events, i, pc, start_time_p, end_time_p, cur,
          semester_ended, occurrences, first_meeting_date, last_meeting_date,
          exceptions_dates, recurring_events, warnings, error, ics_string>>

compact_vars == <<first_meeting_date, last_meeting_date, exceptions_dates>>

walk_vars == <<cur, semester_ended, occurrences>>

time_vars == <<start_time_p, end_time_p>>

NoTime == [hour |-> 0, minute |-> 0]

\* the state when the loop over at most max_sections sections starts
InitWith(max_sections) ==
    /\ \E raw \in RawTables :
          special_dates = [k \in 1..Len(raw) |-> SpecialDate(raw[k])]
    /\ academic_events \in
          UNION {[1..n -> AcademicEvents] : n \in 1..max_sections}
    /\ i = 1
    /\ pc = "loop"
    /\ start_time_p = NoTime
    /\ end_time_p = NoTime
    /\ cur = 0
    /\ semester_ended = FALSE
    /\ occurrences = <<>>
    /\ first_meeting_date = 0
    /\ last_meeting_date = 0
    /\ exceptions_dates = <<>>
    /\ recurring_events = <<>>
    /\ warnings =
          IF duplicated_dates(special_dates) # {}
          THEN <<[kind |-> "duplicated dates", section |-> 0,
                  dates |-> duplicated_dates(special_dates)]>>
          ELSE <<>>
    /\ error = ""
    /\ ics_string = None

Init == InitWith(MaxSections)

\* a run over a schedule of one section
InitOneSection == InitWith(1)

(* ------------------------------- actions ------------------------------ *)

AtSection == pc = "loop" /\ i <= Len(academic_events)

Raise(exception) ==
    /\ pc' = "crashed"
    /\ error' = exception

\* if not isinstance(meeting_time, str): st.warning(...); continue
SkipSection ==
    /\ AtSection
    /\ ~academic_events[i].meeting_time.is_str
    /\ warnings' = Append(warnings,
          [kind |-> "skipping", section |-> i, dates |-> {}])
    /\ i' = i + 1
    /\ UNCHANGED <<special_dates, academic_events, pc, time_vars, walk_vars,
                   compact_vars, recurring_events, error, ics_string>>

\* start_time, end_time = meeting_time.split(' - ') with other than two parts
SplitRaises ==
    /\ AtSection
    /\ academic_events[i].meeting_time.is_str
    /\ Len(Split(academic_events[i].meeting_time.chars)) # 2
    /\ Raise("ValueError")
    /\ UNCHANGED <<special_dates, academic_events, i, time_vars, walk_vars,
                   compact_vars, recurring_events, warnings, ics_string>>

\* parse_time(start_time) or parse_time(end_time) finds no match
ParseRaises ==
    /\ AtSection
    /\ academic_events[i].meeting_time.is_str
    /\ LET parts == Split(academic_events[i].meeting_time.chars)
       IN  /\ Len(parts) = 2
           /\ IF ParseTimeRaises(parts[1])
              THEN UNCHANGED time_vars
              ELSE /\ ParseTimeRaises(parts[2])
                   /\ start_time_p' = parse_time(parts[1])
                   /\ UNCHANGED end_time_p
    /\ Raise("AttributeError")
    /\ UNCHANGED <<special_dates, academic_events, i, walk_vars, compact_vars,
                   recurring_events, warnings, ics_string>>

\* the time field parses: iter_meeting_dates starts its walk
StartWalk ==
    /\ AtSection
    /\ academic_events[i].meeting_time.is_str
    /\ LET parts == Split(academic_events[i].meeting_time.chars)
       IN  /\ Len(parts) = 2
           /\ ~ParseTimeRaises(parts[1])
           /\ ~ParseTimeRaises(parts[2])
           /\ start_time_p' = parse_time(parts[1])
           /\ end_time_p' = parse_time(parts[2])
    /\ cur' = academic_events[i].start_date
    /\ semester_ended' = FALSE
    /\ occurrences' = <<>>
    /\ pc' = "walk"
    /\ UNCHANGED <<special_dates, academic_events, i, compact_vars,
                   recurring_events, warnings, error, ics_string>>

\* one iteration of the while loop of iter_meeting_dates
WalkDay ==
    /\ pc = "walk"
    /\ WalkContinues(cur, academic_events[i].end_date)
    /\ LET days == PatternDays(academic_events[i].pattern)
       IN  /\ occurrences' = Append(occurrences,
                 Classify(special_dates, cur, days, semester_ended))
           /\ semester_ended' =
                 IF EndsSemester(EffectiveDate(special_dates, cur))
                 THEN TRUE ELSE semester_ended
    /\ cur' = cur + 1
    /\ UNCHANGED <<special_dates, academic_events, i, pc, time_vars,
                   compact_vars, recurring_events, warnings, error, ics_string>>

WalkOver == pc = "walk" /\ ~WalkContinues(cur, academic_events[i].end_date)

\* first_meeting_date = actual_occurrences[0][0] on an empty list
NoMeetingsRaises ==
    /\ WalkOver
    /\ NoMeetings(occurrences)
    /\ Raise("IndexError")
    /\ UNCHANGED <<special_dates, academic_events, i, time_vars, walk_vars,
                   compact_vars, recurring_events, warnings, ics_string>>

\* compaction: first_meeting_date, last_meeting_date, exceptions_dates
Compact ==
    /\ WalkOver
    /\ ~NoMeetings(occurrences)
    /\ first_meeting_date' = FirstMeetingDate(occurrences)
    /\ last_meeting_date' = LastMeetingDate(occurrences)
    /\ exceptions_dates' =
          ExceptionsDates(occurrences, LastMeetingDate(occurrences))
    /\ pc' = "build"
    /\ UNCHANGED <<special_dates, academic_events, i, time_vars, walk_vars,
                   recurring_events, warnings, error, ics_string>>

\* the recurring_event calls that end the loop body
BuildSection ==
    /\ pc = "build"
    /\ LET calls == SectionCalls(academic_events[i], occurrences,
                                 first_meeting_date, last_meeting_date,
                                 exceptions_dates, start_time_p, end_time_p)
           made == CallsDone(calls)
       IN  /\ recurring_events' =
                 recurring_events \o [k \in 1..Len(made) |-> EventOf(made[k])]
           /\ IF Len(made) < Len(calls)
              THEN Raise("AssertionError") /\ UNCHANGED i
              ELSE pc' = "loop" /\ i' = i + 1 /\ UNCHANGED error
    /\ UNCHANGED <<special_dates, academic_events, time_vars, walk_vars,
                   compact_vars, warnings, ics_string>>

\* after the loop: the all-day events (when the checkbox is ticked) and
\* write_ics
Serialize ==
    /\ pc = "loop"
    /\ i > Len(academic_events)
    /\ \E include \in BOOLEAN :
          LET relevant == relevant_special_dates(special_dates, academic_events)
              all_day_events ==
                 IF Len(relevant) > 0 /\ include
                 THEN [k \in 1..Len(relevant) |-> all_day_event(relevant[k].date)]
                 ELSE <<>>
          IN  ics_string' = write_ics(all_day_events \o recurring_events)
    /\ pc' = "done"
    /\ UNCHANGED <<special_dates, academic_events, i, time_vars, walk_vars,
                   compact_vars, recurring_events, warnings, error>>

Next ==
    \/ SkipSection
    \/ SplitRaises
    \/ ParseRaises
    \/ StartWalk
    \/ WalkDay
    \/ NoMeetingsRaises
    \/ Compact
    \/ BuildSection
    \/ Serialize

Spec == Init /\ [][Next]_vars

\* the same program on a schedule of one section: the walk and the
\* compaction of a section do not depend on the sections before it
SpecOneSection == InitOneSection /\ [][Next]_vars

(* ------------------- parse_time over the clock strings ----------------- *)

ClockHours == 1..12

ClockMinutes == 0..59

Meridians == {"A", "P"}

\* the string "h:mm AM" or "h:mm PM", the way the schedule writes a time
ClockChars(h, m, mer) ==
    (IF h >= 10 THEN <<Digits[(h \div 10) + 1]>> ELSE <<>>) \o
    <<Digits[(h % 10) + 1], ":", Digits[(m \div 10) + 1], Digits[(m % 10) + 1],
      " ", mer, "M">>

ClockStrings ==
    {ClockChars(h, m, mer) : h \in ClockHours, m \in ClockMinutes,
                             mer \in Meridians}

\* other first halves of a time field: "13:00 PM", "9:75 AM", "9:5 AM",
\* "9:55 AMX", "9:55 PM (lab)", "noon", "9:55AM", "9:55 am", ":55 AM",
\* "9.55 AM", "955 AM", "9:55 A", " 9:55 AM" and ""
OtherStrings ==
    {<<"1", "3", ":", "0", "0", " ", "P", "M">>,
     <<"9", ":", "7", "5", " ", "A", "M">>,
     <<"9", ":", "5", " ", "A", "M">>,
     <<"9", ":", "5", "5", " ", "A", "M", "X">>,
     <<"9", ":", "5", "5", " ", "P", "M", " ", "(", "l", "a", "b", ")">>,
     <<"n", "o", "o", "n">>,
     <<"9", ":", "5", "5", "A", "M">>,
     <<"9", ":", "5", "5", " ", "a", "m">>,
     <<":", "5", "5", " ", "A", "M">>,
     <<"9", ".", "5", "5", " ", "A", "M">>,
     <<"9", "5", "5", " ", "A", "M">>,
     <<"9", ":", "5", "5", " ", "A">>,
     <<" ", "9", ":", "5", "5", " ", "A", "M">>,
     <<>>}

\* the time field x + " - 10:45 AM"
TimeFrom(x) ==
    Str(x \o <<" ", "-", " ", "1", "0", ":", "4", "5", " ", "A", "M">>)

\* one section for every start time, and one for each other path of the
\* loop body
ParseTimeEvents ==
    [pattern : {<<"M">>},
     meeting_time : {TimeFrom(x) : x \in ClockStrings \cup OtherStrings}
                    \cup {NaN, TimeTBA},
     start_date : {0}, end_date : {MaxDay}]
    \cup
    [pattern : {<<"T">>}, meeting_time : {TimeOk},
     start_date : {0}, end_date : {0}]

\* a run over a schedule of one section and an empty table
InitParseTime ==
    /\ special_dates = <<>>
    /\ \E event \in ParseTimeEvents : academic_events = <<event>>
    /\ i = 1
    /\ pc = "loop"
    /\ start_time_p = NoTime
    /\ end_time_p = NoTime
    /\ cur = 0
    /\ semester_ended = FALSE
    /\ occurrences = <<>>
    /\ first_meeting_date = 0
    /\ last_meeting_date = 0
    /\ exceptions_dates = <<>>
    /\ recurring_events = <<>>
    /\ warnings = <<>>
    /\ error = ""
    /\ ics_string = None

\* the program on the sections that differ in their start time
SpecParseTime == InitParseTime /\ [][Next]_vars

(* ---------------- the writer over all seven weekday letters ------------ *)

AllLetters == {WeekLetters[k] : k \in 1..Len(WeekLetters)}

\* every pattern of one or two different letters, in either order, and two
\* patterns of three
WeekPatterns ==
    {p \in [1..1 -> AllLetters] \cup [1..2 -> AllLetters] :
        \A a, b \in 1..Len(p) : a # b => p[a] # p[b]}
    \cup {<<"M", "W", "F">>, <<"T", "W", "R">>}

\* the tables of at most one row, one that cancels two days and one that
\* cancels a day and moves a Monday schedule to the next
WeekTables ==
    {<<>>} \cup [1..1 -> RawRows]
    \cup {<<[date |-> 1, pattern |-> ""], [date |-> 2, pattern |-> ""]>>,
          <<[date |-> 1, pattern |-> ""], [date |-> 2, pattern |-> "M"]>>}

WeekPatternEvents ==
    [pattern : WeekPatterns, meeting_time : {TimeOk, TimeNoon},
     start_date : {0}, end_date : {MaxDay}]
    \cup
    [pattern : {<<"M">>}, meeting_time : {NaN, TimeTBA, TimeBadHalf},
     start_date : {0}, end_date : {MaxDay}]

\* a run over a schedule of one section
InitWeekPatterns ==
    /\ \E raw \in WeekTables :
          special_dates = [k \in 1..Len(raw) |-> SpecialDate(raw[k])]
    /\ \E event \in WeekPatternEvents : academic_events = <<event>>
    /\ i = 1
    /\ pc = "loop"
    /\ start_time_p = NoTime
    /\ end_time_p = NoTime
    /\ cur = 0
    /\ semester_ended = FALSE
    /\ occurrences = <<>>
    /\ first_meeting_date = 0
    /\ last_meeting_date = 0
    /\ exceptions_dates = <<>>
    /\ recurring_events = <<>>
    /\ warnings =
          IF duplicated_dates(special_dates) # {}
          THEN <<[kind |-> "duplicated dates", section |-> 0,
                  dates |-> duplicated_dates(special_dates)]>>
          ELSE <<>>
    /\ error = ""
    /\ ics_string = None

\* the program on the sections that differ in their pattern
SpecWeekPatterns == InitWeekPatterns /\ [][Next]_vars

(* ------------------------------ properties ---------------------------- *)

\* occurrences is the walk of section i
InWalk == pc \in {"walk", "build"}

\* the weekday index wd is one of the letters of the pattern of section i
InPattern(wd) ==
    /\ wd \in 0..6
    /\ \E k \in 1..Len(academic_events[i].pattern) :
          academic_events[i].pattern[k] = WeekLetters[wd + 1]

\* the rows of the table that name the day
RowsOn(day) == {k \in 1..Len(special_dates) : special_dates[k].date = day}

HasSemesterEndRow(day) ==
    \E k \in RowsOn(day) : special_dates[k].pattern = END_OF_SEMESTER

\* the value of the last (first) row that names the day, else its weekday
LastRowEffect(day) ==
    IF RowsOn(day) = {} THEN day % 7
    ELSE special_dates[CHOOSE k \in RowsOn(day) :
                          \A j \in RowsOn(day) : j <= k].pattern

FirstRowEffect(day) ==
    IF RowsOn(day) = {} THEN day % 7
    ELSE special_dates[CHOOSE k \in RowsOn(day) :
                          \A j \in RowsOn(day) : k <= j].pattern

\* a date emitted before position a of the walk had the semester-end value
EndedBefore(a) ==
    \E b \in 1..(a - 1) : LastRowEffect(occurrences[b].date) = END_OF_SEMESTER

\* C1 (as amended): once a date whose value in the table is END_OF_SEMESTER
\* (the last row naming the date decides) has been emitted, no later date of
\* the same walk meets, whatever the pattern and the rows for the later dates.
C1_StickySemesterEnd ==
    InWalk =>
        \A a, b \in 1..Len(occurrences) :
            (a < b /\ LastRowEffect(occurrences[a].date) = END_OF_SEMESTER)
                => ~occurrences[b].meets_today

\* C1 as stated: any END_OF_SEMESTER row on an emitted date stops every later
\* date from meeting.
C1_Original ==
    InWalk =>
        \A a, b \in 1..Len(occurrences) :
            (a < b /\ HasSemesterEndRow(occurrences[a].date))
                => ~occurrences[b].meets_today

\* a semester-end date was emitted, and a later date that a weekday override
\* puts on the pattern does not meet
C1_Witness ==
    /\ InWalk
    /\ \E a, b \in 1..Len(occurrences) :
          /\ a < b
          /\ LastRowEffect(occurrences[a].date) = END_OF_SEMESTER
          /\ RowsOn(occurrences[b].date) # {}
          /\ InPattern(LastRowEffect(occurrences[b].date))
          /\ ~occurrences[b].meets_today

\* C2 (as amended): the flag is set only after the semester-end date has been
\* emitted, so it is false while that date is classified unless an earlier
\* date set it; the date itself never meets, whatever the pattern, because
\* its value is in no pattern: it is an exception exactly when its weekday is
\* in the pattern.
C2_SemesterEndDayNeverMeets ==
    /\ pc = "walk" =>
          (semester_ended <=> EndedBefore(Len(occurrences) + 1))
    /\ InWalk =>
          \A a \in 1..Len(occurrences) :
              LastRowEffect(occurrences[a].date) = END_OF_SEMESTER =>
                  /\ ~occurrences[a].meets_today
                  /\ ~occurrences[a].is_abnormal_meeting
                  /\ occurrences[a].is_exception
                        <=> InPattern(occurrences[a].date % 7)

\* C2 as stated: on the first semester-end date of a walk the pattern decides
\* whether the date meets.
C2_Original ==
    InWalk =>
        \A a \in 1..Len(occurrences) :
            (LastRowEffect(occurrences[a].date) = END_OF_SEMESTER
             /\ ~EndedBefore(a))
                => (occurrences[a].meets_today
                       <=> InPattern(occurrences[a].date % 7))

\* the first semester-end date of a walk falls on a weekday of the pattern
C2_Witness ==
    /\ InWalk
    /\ \E a \in 1..Len(occurrences) :
          /\ LastRowEffect(occurrences[a].date) = END_OF_SEMESTER
          /\ ~EndedBefore(a)
          /\ InPattern(occurrences[a].date % 7)
          /\ occurrences[a].is_exception

\* C3 (as amended): when several rows name a date, the last of them in table
\* order gives the effective weekday; the duplicate is reported by a warning
\* and stops nothing.
C3_LastMatchWins ==
    /\ duplicated_dates(special_dates) # {} =>
          /\ Len(warnings) >= 1
          /\ warnings[1].kind = "duplicated dates"
          /\ warnings[1].dates =
                {d \in 1..MaxSpecialDay : Cardinality(RowsOn(d)) > 1}
    /\ InWalk =>
          \A a \in 1..Len(occurrences) :
              /\ EffectiveDate(special_dates, occurrences[a].date)
                    = LastRowEffect(occurrences[a].date)
              /\ occurrences[a].meets_today <=>
                    (InPattern(LastRowEffect(occurrences[a].date))
                     /\ ~EndedBefore(a))

\* C3 as stated: the first row that names a date gives its effective weekday.
C3_Original ==
    InWalk =>
        \A a \in 1..Len(occurrences) :
            EffectiveDate(special_dates, occurrences[a].date)
                = FirstRowEffect(occurrences[a].date)

\* a date named by two rows, only one of which puts it on the pattern, has
\* been emitted
C3_Witness ==
    /\ InWalk
    /\ duplicated_dates(special_dates) # {}
    /\ \E a \in 1..Len(occurrences) :
          InPattern(FirstRowEffect(occurrences[a].date))
              # InPattern(LastRowEffect(occurrences[a].date))

\* the dates of the walk that meet, are exceptions, are abnormal meetings
MeetingDates == {occurrences[k].date : k \in
                    {k \in 1..Len(occurrences) : occurrences[k].meets_today}}

ExceptionDates == {occurrences[k].date : k \in
                    {k \in 1..Len(occurrences) : occurrences[k].is_exception}}

AbnormalDates == {occurrences[k].date : k \in
                    {k \in 1..Len(occurrences) :
                        occurrences[k].is_abnormal_meeting}}

MinOf(S) == CHOOSE d \in S : \A e \in S : d <= e

MaxOf(S) == CHOOSE d \in S : \A e \in S : e <= d

\* the walk of section i has ended
WalkEnded == pc = "walk" /\ cur > academic_events[i].end_date

\* the time field of section i is no valid "H:MM AM|PM - H:MM AM|PM" string
BadTimeField ==
    LET t == academic_events[i].meeting_time
    IN  \/ ~t.is_str
        \/ Len(Split(t.chars)) # 2
        \/ ParseTimeRaises(Split(t.chars)[1])
        \/ ParseTimeRaises(Split(t.chars)[2])

\* the section is skipped with a warning and the loop goes on
SkippedWithWarning ==
    /\ pc' = "loop"
    /\ i' = i + 1
    /\ error' = ""
    /\ recurring_events' = recurring_events
    /\ Len(warnings') = Len(warnings) + 1
    /\ warnings'[Len(warnings')].section = i

\* C4: when the walk of a section has no date that meets (the empty walk
\* included), the section is skipped with a warning, it adds no event, and
\* the loop goes on to the remaining sections.
C4_NoMeetingsIsolated ==
    [][(WalkEnded /\ MeetingDates = {}) => SkippedWithWarning]_vars

\* C5: a section whose time field is not a valid time range (not a string, no
\* ' - ' separator, a half that does not parse) is skipped with a warning; the
\* loop goes on and the events already built are kept.
C5_BadTimeFieldSkipped ==
    [][(pc = "loop" /\ i <= Len(academic_events) /\ BadTimeField)
          => SkippedWithWarning]_vars

\* C6: exceptions_dates is exactly the walked dates that are exceptions and
\* not later than the last meeting date, each once and in order; none of its
\* elements is later than last_meeting_date.
C6_CompactionBound ==
    pc = "build" =>
        /\ last_meeting_date = MaxOf(MeetingDates)
        /\ {exceptions_dates[k] : k \in 1..Len(exceptions_dates)}
              = {d \in ExceptionDates : d <= MaxOf(MeetingDates)}
        /\ \A a, b \in 1..Len(exceptions_dates) :
              a < b => exceptions_dates[a] < exceptions_dates[b]
        /\ \A k \in 1..Len(exceptions_dates) :
              exceptions_dates[k] <= last_meeting_date

\* the semester ended after the last meeting: a later exception was dropped
C6_Witness ==
    /\ pc = "build"
    /\ \E a, b \in 1..Len(occurrences) :
          /\ a < b
          /\ LastRowEffect(occurrences[a].date) = END_OF_SEMESTER
          /\ occurrences[b].is_exception
          /\ occurrences[b].date > last_meeting_date

\* C7: no classification is both an exception and an abnormal meeting, and a
\* date whose weekday is not in the pattern and that does not meet is neither.
C7_MutualExclusivity ==
    InWalk =>
        \A k \in 1..Len(occurrences) :
            /\ ~(occurrences[k].is_exception
                 /\ occurrences[k].is_abnormal_meeting)
            /\ (~InPattern(occurrences[k].date % 7)
                /\ ~occurrences[k].meets_today)
                  => (~occurrences[k].is_exception
                      /\ ~occurrences[k].is_abnormal_meeting)

\* one walk with an exception, an abnormal meeting and an ordinary day off
C7_Witness ==
    /\ InWalk
    /\ \E a, b, c \in 1..Len(occurrences) :
          /\ occurrences[a].is_exception
          /\ occurrences[b].is_abnormal_meeting
          /\ ~InPattern(occurrences[c].date % 7)
          /\ ~occurrences[c].meets_today

\* the number of days of the range of section i
RangeLength ==
    IF academic_events[i].start_date > academic_events[i].end_date THEN 0
    ELSE academic_events[i].end_date - academic_events[i].start_date + 1

\* C8: the walk emits one classification for each day from start_date to
\* end_date, in ascending order without gaps or repeats, and then stops; an
\* empty range emits nothing and raises nothing.
C8_OnePerDay ==
    /\ InWalk =>
          /\ \A k \in 1..Len(occurrences) :
                occurrences[k].date = academic_events[i].start_date + k - 1
          /\ Len(occurrences) <= RangeLength
    /\ pc = "walk" =>
          /\ cur = academic_events[i].start_date + Len(occurrences)
          /\ error = ""
    /\ (WalkEnded \/ pc = "build") => Len(occurrences) = RangeLength

\* a walk over the longest range has ended
C8_Witness ==
    /\ WalkEnded
    /\ Len(occurrences) = MaxDay + 1

\* no row of the table is dated inside the range of section i
NoRowInRange ==
    \A k \in 1..Len(special_dates) :
        \/ special_dates[k].date < academic_events[i].start_date
        \/ special_dates[k].date > academic_events[i].end_date

\* C9: when no row of the table is dated inside the range, a date meets
\* exactly when its weekday is in the pattern, and no date is an exception or
\* an abnormal meeting.
C9_ExceptionFreeBaseline ==
    (InWalk /\ NoRowInRange) =>
        \A k \in 1..Len(occurrences) :
            /\ occurrences[k].meets_today
                  <=> InPattern(occurrences[k].date % 7)
            /\ ~occurrences[k].is_exception
            /\ ~occurrences[k].is_abnormal_meeting

\* a whole walk with no row in range, with days that meet and days that do not
C9_Witness ==
    /\ WalkEnded
    /\ NoRowInRange
    /\ Len(occurrences) = MaxDay + 1
    /\ \E a, b \in 1..Len(occurrences) :
          occurrences[a].meets_today /\ ~occurrences[b].meets_today

\* the events the build step appends
NewEvents ==
    SubSeq(recurring_events', Len(recurring_events) + 1, Len(recurring_events'))

\* C10: for a section with a meeting the builder appends one event for the
\* weekly rule (the section's pattern, the first and last meeting dates, the
\* exclusions) and then one event for each abnormal meeting date, in date
\* order, each with no pattern, no last date and no exclusions; the assertion
\* of recurring_event does not fail.
C10_OneRecurringPlusStandalones ==
    [][pc = "build" =>
        /\ error' = ""
        /\ pc' = "loop"
        /\ i' = i + 1
        /\ Len(recurring_events') >= Len(recurring_events)
        /\ SubSeq(recurring_events', 1, Len(recurring_events)) = recurring_events
        /\ Len(NewEvents) = 1 + Cardinality(AbnormalDates)
        /\ NewEvents[1].meeting_pattern = Some(academic_events[i].pattern)
        /\ NewEvents[1].first_date = MinOf(MeetingDates)
        /\ NewEvents[1].last_date = Some(MaxOf(MeetingDates))
        /\ NewEvents[1].exceptions = exceptions_dates
        /\ Len(NewEvents[1].rrule) = 1
        /\ \A k \in 2..Len(NewEvents) :
              /\ NewEvents[k].meeting_pattern = None
              /\ NewEvents[k].last_date = None
              /\ NewEvents[k].exceptions = <<>>
              /\ NewEvents[k].rrule = <<>>
              /\ NewEvents[k].exceptions_str = <<>>
              /\ NewEvents[k].first_date \in AbnormalDates
              /\ Cardinality({d \in AbnormalDates : d < NewEvents[k].first_date})
                    = k - 2
      ]_vars

\* a section with an exclusion and an abnormal meeting has been built
C10_Witness ==
    /\ Len(recurring_events) >= 2
    /\ recurring_events[1].meeting_pattern # None
    /\ recurring_events[1].exceptions # <<>>
    /\ recurring_events[2].meeting_pattern = None


(* -------------------------- parse_time (C11) -------------------------- *)

\* the halves of the time field of the only section
TimeParts == Split(academic_events[1].meeting_time.chars)

\* the loop body has parsed, or failed to parse, the start time
StartTimeApplied ==
    /\ Len(academic_events) = 1
    /\ academic_events[1].meeting_time.is_str
    /\ Len(TimeParts) = 2
    /\ ~(pc = "loop" /\ i = 1)

StartTime == TimeParts[1]

ParseTimeRaised == pc = "crashed" /\ error = "AttributeError"

\* the 24-hour value specified for hour literal h and meridian mer
ClockValue(h, m, mer) ==
    [hour |-> (h % 12) + (IF mer = "P" THEN 12 ELSE 0), minute |-> m]

\* every 12-hour clock string with the value specified for it
ClockTable ==
    {<<ClockChars(h, m, mer), ClockValue(h, m, mer)>> :
        h \in ClockHours, m \in ClockMinutes, mer \in Meridians}

\* x starts with digits, ':', digits, ' ' and AM or PM
StartsWithClock(x) ==
    \E a \in 1..Len(x), b \in 1..Len(x) :
        /\ a + 2 <= b
        /\ b + 3 <= Len(x)
        /\ \A k \in 1..a : x[k] \in {Digits[n] : n \in 1..10}
        /\ x[a + 1] = ":"
        /\ \A k \in (a + 2)..b : x[k] \in {Digits[n] : n \in 1..10}
        /\ x[b + 1] = " "
        /\ x[b + 2] \in Meridians
        /\ x[b + 3] = "M"

\* C11 (as amended): for every hour literal h in 1..12, minute m in 0..59 and
\* meridian, parse_time of "h:mm AM|PM" returns hour (h mod 12) + (12 if PM
\* else 0) and minute m, so the hour is in 0..23, 12 AM gives 0 and 12 PM
\* gives 12; a string that does not start with digits, ':', digits, ' ' and
\* AM or PM raises an error; a string that starts so returns a value,
\* whatever follows the meridian and whatever the range of its literals.
C11_ParseTime ==
    StartTimeApplied =>
        /\ StartTime \in ClockStrings =>
              /\ ~ParseTimeRaised
              /\ <<StartTime, start_time_p>> \in ClockTable
              /\ start_time_p.hour \in 0..23
        /\ \A m \in ClockMinutes :
              /\ StartTime = ClockChars(12, m, "A") => start_time_p.hour = 0
              /\ StartTime = ClockChars(12, m, "P") => start_time_p.hour = 12
        /\ ParseTimeRaised <=> ~StartsWithClock(StartTime)

\* C11 as stated: every string that is not a 12-hour clock string "h:mm AM" or
\* "h:mm PM" with h in 1..12 and m in 0..59 raises an error.
C11_Original ==
    StartTimeApplied =>
        (StartTime \notin ClockStrings => ParseTimeRaised)

\* "12:05 AM" has been parsed to hour 0, minute 5
C11_Witness ==
    /\ StartTimeApplied
    /\ StartTime = ClockChars(12, 5, "A")
    /\ start_time_p = [hour |-> 0, minute |-> 5]


(* ------------------------- recurring_event (C12) ---------------------- *)

\* the wire code specified for each pattern symbol
WireCodes ==
    {<<"M", "MO">>, <<"T", "TU">>, <<"W", "WE">>, <<"R", "TH">>,
     <<"F", "FR">>, <<"S", "SA">>, <<"U", "SU">>}

\* the events with a start time: those built by recurring_event
IsTimedEvent(e) == "meeting_pattern" \in DOMAIN e

\* the event has one rule line, for the pattern and last_date of its
\* descriptor, and one exclusion line for each excluded date
HasRuleAndExclusions(e) ==
    /\ Len(e.rrule) = 1
    /\ Len(e.rrule[1].byday) = Len(e.meeting_pattern.value)
    /\ \A k \in 1..Len(e.meeting_pattern.value) :
          <<e.meeting_pattern.value[k], e.rrule[1].byday[k]>> \in WireCodes
    /\ e.rrule[1].until = [date |-> e.last_date.value, hour |-> 23, minute |-> 59]
    /\ Len(e.exceptions_str) = Cardinality({e.exceptions[k] : k \in 1..Len(e.exceptions)})
    /\ \A k \in 1..Len(e.exceptions) :
          \E j \in 1..Len(e.exceptions_str) :
              e.exceptions_str[j] = [date |-> e.exceptions[k], hour |-> e.dtstart.hour, minute |-> e.dtstart.minute]

HasNoRuleNoExclusion(e) == e.rrule = <<>> /\ e.exceptions_str = <<>>

SerializedAsSpecified(e) ==
    IF e.meeting_pattern # None
    THEN HasRuleAndExclusions(e)
    ELSE HasNoRuleNoExclusion(e)

\* C12: an event built from a descriptor with a pattern has exactly one weekly
\* rule, whose BYDAY list is the pattern's symbols mapped M->MO, T->TU, W->WE,
\* R->TH, F->FR, S->SA, U->SU in pattern order and whose UNTIL is 23:59 on
\* last_date, and exactly one exclusion line per excluded date, at the
\* event's start time; an event built from a descriptor without a pattern has
\* no rule line and no exclusion line.  The same holds of the events handed
\* to write_ics.
C12_RuleAndExclusionLines ==
    /\ \A k \in 1..Len(recurring_events) :
          SerializedAsSpecified(recurring_events[k])
    /\ ics_string # None =>
          \A k \in 1..Len(ics_string.events) :
              IsTimedEvent(ics_string.events[k]) =>
                  SerializedAsSpecified(ics_string.events[k])

\* the written calendar holds a weekly event for a pattern that names
\* Tuesday before Monday, with an exclusion line, and a single event
C12_Witness ==
    /\ ics_string # None
    /\ \E k, j \in 1..Len(ics_string.events) :
          /\ IsTimedEvent(ics_string.events[k])
          /\ ics_string.events[k].meeting_pattern = Some(<<"T", "M">>)
          /\ ics_string.events[k].rrule[1].byday = <<"TU", "MO">>
          /\ Len(ics_string.events[k].exceptions_str) = 1
          /\ IsTimedEvent(ics_string.events[j])
          /\ ics_string.events[j].meeting_pattern = None

(* ----------------------- NoMeeting rows (C13) ------------------------- *)

HasNoMeetingRow(day) ==
    \E k \in RowsOn(day) : special_dates[k].pattern = NO_CLASS

\* a later date without a row, and without an earlier semester-end date,
\* meets exactly on the weekdays of the pattern
LaterDatesUnaffected(a) ==
    \A b \in (a + 1)..Len(occurrences) :
        (RowsOn(occurrences[b].date) = {} /\ ~EndedBefore(b))
            => (occurrences[b].meets_today <=> InPattern(occurrences[b].date % 7))

\* C13 (as amended): a date whose value in the table is NoMeeting (the last
\* row naming the date decides) does not meet, and the entry has no effect on
\* later dates: a later date of the walk with no row and no earlier
\* semester-end date meets exactly when its true weekday is in the pattern.
C13_NoMeetingNotSticky ==
    InWalk =>
        \A a \in 1..Len(occurrences) :
            LastRowEffect(occurrences[a].date) = NO_CLASS =>
                /\ ~occurrences[a].meets_today
                /\ LaterDatesUnaffected(a)

\* C13 as stated: any NoMeeting row on a date keeps that date from meeting,
\* and has no effect on later dates.
C13_Original ==
    InWalk =>
        \A a \in 1..Len(occurrences) :
            HasNoMeetingRow(occurrences[a].date) =>
                /\ ~occurrences[a].meets_today
                /\ LaterDatesUnaffected(a)

\* a pattern day was cancelled by a NoMeeting row, and a later pattern day
\* without a row meets
C13_Witness ==
    /\ InWalk
    /\ \E a, b \in 1..Len(occurrences) :
          /\ a < b
          /\ LastRowEffect(occurrences[a].date) = NO_CLASS
          /\ InPattern(occurrences[a].date % 7)
          /\ ~occurrences[a].meets_today
          /\ RowsOn(occurrences[b].date) = {}
          /\ occurrences[b].meets_today

(* ------------------ the span of the weekly rule (C14) ------------------ *)

ExclusionDates == {exceptions_dates[k] : k \in 1..Len(exceptions_dates)}

\* C14 (as amended): every exclusion date passed to the recurring descriptor
\* is a date of the walk not later than last_meeting_date and is no meeting
\* date; the compaction has no lower bound, so a pattern day cancelled before
\* the first actual meeting is passed as an exclusion although it is earlier
\* than first_meeting_date.
C14_ExclusionsUpToLastMeeting ==
    pc = "build" =>
        /\ \A d \in ExclusionDates :
              /\ academic_events[i].start_date <= d
              /\ d <= last_meeting_date
              /\ d # first_meeting_date
        /\ \A d \in ExceptionDates : d < first_meeting_date => d \in ExclusionDates

\* C14 as stated: every exclusion date lies between first_meeting_date and
\* last_meeting_date.
C14_Original ==
    pc = "build" =>
        \A d \in ExclusionDates :
            first_meeting_date <= d /\ d <= last_meeting_date

\* a pattern day was cancelled before the first meeting and is an exclusion
C14_Witness ==
    /\ pc = "build"
    /\ \E d \in ExclusionDates :
          /\ d < first_meeting_date
          /\ LastRowEffect(d) = NO_CLASS

(* --------------- the dates the descriptors stand for (C15) ------------- *)

\* the section has been built: its events are all of recurring_events
SectionBuilt == Len(academic_events) = 1 /\ Len(recurring_events) > 0

\* the true weekday of d is one of the letters of the pattern
OnPattern(pattern, d) ==
    \E k \in 1..Len(pattern) : pattern[k] = WeekLetters[(d % 7) + 1]

\* the dates of the weekly rule of the event: its pattern days from
\* first_date to last_date, without its exclusions
RuleDates(e) ==
    {d \in e.first_date..e.last_date.value : OnPattern(e.meeting_pattern.value, d)}
    \ {e.exceptions[k] : k \in 1..Len(e.exceptions)}

StandaloneDates ==
    {recurring_events[k].first_date : k \in 2..Len(recurring_events)}

\* C15: for a section with a meeting, the pattern days from first_date to
\* last_date without the excluded dates, together with the dates of the
\* standalone events, are exactly the walked dates that meet; no date is in
\* both, and no date has two standalone events.
C15_DescriptorsCoverMeetings ==
    SectionBuilt =>
        /\ recurring_events[1].meeting_pattern # None
        /\ \A k \in 2..Len(recurring_events) :
              recurring_events[k].meeting_pattern = None
        /\ RuleDates(recurring_events[1]) \cup StandaloneDates = MeetingDates
        /\ RuleDates(recurring_events[1]) \cap StandaloneDates = {}
        /\ Cardinality(StandaloneDates) = Len(recurring_events) - 1

\* the events of a section with an exclusion, a standalone date and a weekly
\* date have been built
C15_Witness ==
    /\ SectionBuilt
    /\ recurring_events[1].exceptions # <<>>
    /\ StandaloneDates # {}
    /\ RuleDates(recurring_events[1]) # {}

(* ------------------- DTSTART and the BYDAY rule (C16) ------------------ *)

\* C16: the first_date and last_date of the section's weekly event are dates
\* whose true weekday is in the pattern, and first_date is not also the date
\* of a standalone event.
C16_FirstAndLastOnPattern ==
    SectionBuilt =>
        /\ OnPattern(recurring_events[1].meeting_pattern.value, recurring_events[1].first_date)
        /\ OnPattern(recurring_events[1].meeting_pattern.value, recurring_events[1].last_date.value)
        /\ recurring_events[1].first_date \notin StandaloneDates
====
